---- MODULE Spec2Model ----
(***************************************************************************)
(* The research agent of src/research_agent: the batch loop of main.py     *)
(* around the researcher -> enricher -> validator graph of graph.py.       *)
(*                                                                         *)
(* Python values:                                                          *)
(*   str    a sequence of tokens ("" is <<>>); a token is a piece of text  *)
(*          as fine as the code looks at it (a character for               *)
(*          staff_strength, a URL part for twitter_url)                    *)
(*   list   a sequence                                                     *)
(*   dict   a function from its keys (a record); a key that is not set is  *)
(*          not in its DOMAIN                                              *)
(*   None   the value None below, different from every str, list and dict  *)
(***************************************************************************)
EXTENDS Integers, Sequences, FiniteSets, TLC

VARIABLES
    inputs,     \* main.py:27  the rows read from the input CSV
    idx,        \* main.py:32  position of the for loop in inputs
    results,    \* main.py:28  the result rows collected so far
    output,     \* main.py:87  the rows written to the output CSV (None: no file)
    pc,         \* where control is: "main", a node of the graph, "END", "aborted", "exit"
    state,      \* the AgentState channels of the current execution_graph.invoke
    calls,      \* the provider calls the last stage step issued, with their outcomes
    stats       \* per run: how often each node ran and how many calls it issued

vars == <<inputs, idx, results, output, pc, state, calls, stats>>

-----------------------------------------------------------------------------
(* Bounds of the model *)

MaxFounders == 2
MaxRows == 2
MaxValidations == 2

-----------------------------------------------------------------------------
(* Python values *)

None == (0 :> 0)

S(t) == <<t>>

Get(d, k) == IF k \in DOMAIN d THEN d[k] ELSE None

GetD(d, k, default) == IF k \in DOMAIN d THEN d[k] ELSE default

Truthy(v) == v # None /\ v # <<>>

Or(a, b) == IF Truthy(a) THEN a ELSE b

Update(d, u) == u @@ d

EmptyDict == [k \in {} |-> None]

RECURSIVE Join(_, _)
Join(sep, strs) ==
    IF strs = <<>> THEN <<>>
    ELSE IF Len(strs) = 1 THEN strs[1]
    ELSE strs[1] \o sep \o Join(sep, Tail(strs))

-----------------------------------------------------------------------------
(* The providers: the web search client and the language model.            *)
(* What they answer is not decided by the program: every step draws the    *)
(* answers from the sets below.                                            *)

\* What client.search does inside a search_* method of ResearchTools.
ClientOutcomes == {"ok", "raise"}

\* search_* methods without the try block: what the client raises leaves
\* the method.
search_propagates(outcome) ==
    IF outcome = "ok"
    THEN [results |-> <<S("hit")>>]
    ELSE [raised |-> S("search failed")]

\* tools.py: each search_* method returns the response of the client, or, when
\* the client raises, the error text and an empty result list.
search(outcome) ==
    IF outcome = "ok"
    THEN [results |-> <<S("hit")>>]
    ELSE [error |-> S("search failed"), results |-> <<>>]

\* Text of a model response, piece by piece: prose, a code fence (the json fence or
\* the bare fence), or a JSON text with the value json.loads gives for it.
Prose == [t |-> "prose"]
FenceJson == [t |-> "fence_json"]
Fence == [t |-> "fence"]
JsonObject(d) == [t |-> "json", type |-> "object", v |-> d]
JsonNumber == [t |-> "json", type |-> "number"]

IsFence(chunk) == chunk.t \in {"fence_json", "fence"}

\* llm.invoke either raises or returns a response with this content.
Raises == [kind |-> "raise", exc |-> S("ThrottlingException")]
Responds(content) == [kind |-> "text", content |-> content]

\* content.split(sep)[1].split(fence)[0] where sep is a fence in content: the
\* pieces after the first sep, up to the next fence (the json fence holds the bare fence).
RECURSIVE UpToFence(_)
UpToFence(content) ==
    IF content = <<>> \/ IsFence(Head(content)) THEN <<>>
    ELSE <<Head(content)>> \o UpToFence(Tail(content))

RECURSIVE AfterFirst(_, _)
AfterFirst(content, sep) ==
    IF content = <<>> THEN <<>>
    ELSE IF Head(content) = sep THEN Tail(content)
    ELSE AfterFirst(Tail(content), sep)

Contains(content, chunk) == \E i \in 1..Len(content) : content[i] = chunk

\* graph.py:80-83, the cleanup of the Researcher of markdown fences.
ResearcherCleanup(content) ==
    IF Contains(content, FenceJson)
    THEN UpToFence(AfterFirst(content, FenceJson))
    ELSE IF Contains(content, Fence)
    THEN UpToFence(AfterFirst(content, Fence))
    ELSE content

\* graph.py:155, the cleanup of the Enricher: every fence is replaced by "".
RECURSIVE EnricherCleanup(_)
EnricherCleanup(content) ==
    IF content = <<>> THEN <<>>
    ELSE (IF IsFence(Head(content)) THEN <<>> ELSE <<Head(content)>>)
         \o EnricherCleanup(Tail(content))

\* json.loads(text): a value when the text is exactly one JSON text,
\* otherwise it raises json.JSONDecodeError.
LoadsRaises(text) == ~(Len(text) = 1 /\ text[1].t = "json")
Loads(text) == text[1]

-----------------------------------------------------------------------------
(* graph.py: the three nodes and the router *)

\* str(x) inside an f-string.
Str(v) == IF v = None THEN S("None") ELSE v

\* str(e) of what the try block of researcher_node can raise.
JSONDecodeError == S("Expecting value")
AttributeError == S("object has no attribute get")

\* graph.py:89-93, the company_info a first pass starts from.
NewCompanyInfo(st) ==
    [name |-> st.company_name,
     linkedin_url |-> st.company_linkedin,
     founders |-> <<>>]

\* ScalarUpdate that takes every key of the extraction but the founders
\* (current_info.update(data) in place of the five named keys).
ScalarUpdate_every_key(data) ==
    [k \in (DOMAIN data \ {"founders"})
           \cup {"domain", "description", "twitter_url", "phone",
                 "staff_strength"} |-> Get(data, k)]

\* graph.py:95-101, the company-level fields taken from the extraction.
ScalarUpdate(data) ==
    [domain |-> Get(data, "domain"),
     description |-> Get(data, "description"),
     twitter_url |-> Get(data, "twitter_url"),
     phone |-> Get(data, "phone"),
     staff_strength |-> Get(data, "staff_strength")]

\* FoundersUpdate that takes the extracted list also when it is empty.
FoundersUpdate_always(info, data) ==
    Update(info, [founders |-> GetD(data, "founders", <<>>)])

\* graph.py:105-106, founders are replaced only by a non-empty list.
FoundersUpdate(info, data) ==
    IF Truthy(Get(data, "founders"))
    THEN Update(info, [founders |-> Get(data, "founders")])
    ELSE info

\* ResearcherMerge that keeps a company-level field found before when the
\* extraction has no value for it.
ResearcherMerge_keeps(st, data) ==
    LET prior == GetD(st, "company_info", NewCompanyInfo(st))
        current_info ==
            FoundersUpdate(
                Update(prior,
                       [k \in DOMAIN ScalarUpdate(data) |->
                           IF Truthy(ScalarUpdate(data)[k])
                           THEN ScalarUpdate(data)[k] ELSE Get(prior, k)]),
                data)
    IN [company_info |-> current_info,
        logs |-> GetD(st, "logs", <<>>)
                 \o << <<"Researcher found basic info and ",
                         ToString(Len(current_info.founders)),
                         " potential founders.">> >>]

\* ResearcherMerge that also clears the error list when the extraction
\* parsed.
ResearcherMerge_clears_errors(st, data) ==
    LET current_info ==
            FoundersUpdate(
                Update(GetD(st, "company_info", NewCompanyInfo(st)),
                       ScalarUpdate(data)),
                data)
    IN [company_info |-> current_info,
        errors |-> <<>>,
        logs |-> GetD(st, "logs", <<>>)
                 \o << <<"Researcher found basic info and ",
                         ToString(Len(current_info.founders)),
                         " potential founders.">> >>]

\* ResearcherMerge that starts the log anew with its own line.
ResearcherMerge_fresh_log(st, data) ==
    LET current_info ==
            FoundersUpdate(
                Update(GetD(st, "company_info", NewCompanyInfo(st)),
                       ScalarUpdate(data)),
                data)
    IN [company_info |-> current_info,
        logs |-> << <<"Researcher found basic info and ",
                      ToString(Len(current_info.founders)),
                      " potential founders.">> >>]

\* graph.py:87-111, the update a parsed extraction gives.
ResearcherMerge(st, data) ==
    LET current_info ==
            FoundersUpdate(
                Update(GetD(st, "company_info", NewCompanyInfo(st)),
                       ScalarUpdate(data)),
                data)
    IN [company_info |-> current_info,
        logs |-> GetD(st, "logs", <<>>)
                 \o << <<"Researcher found basic info and ",
                         ToString(Len(current_info.founders)),
                         " potential founders.">> >>]

\* ResearcherError that starts the error list anew.
ResearcherError_resets(st, e) ==
    [errors |-> <<S("Researcher Error: ") \o e>>]

\* graph.py:113-116, the update after an exception in the try block.
ResearcherError(st, e) ==
    [errors |-> GetD(st, "errors", <<>>) \o <<S("Researcher Error: ") \o e>>]

\* graph.py:76-116, what researcher_node returns for a model response.
researcher_node(st, response) ==
    IF response.kind = "raise" THEN ResearcherError(st, response.exc)
    ELSE LET text == ResearcherCleanup(response.content) IN
         IF LoadsRaises(text) THEN ResearcherError(st, JSONDecodeError)
         ELSE IF Loads(text).type # "object"
              THEN ResearcherError(st, AttributeError)
              ELSE ResearcherMerge(st, Loads(text).v)

\* graph.py:160-162, the keys phone and email are made to exist.
EnsureKeys(founder) ==
    Update([phone |-> None, email |-> None], founder)

\* EnrichFounder that makes the keys exist also when the try block raised.
EnrichFounder_ensures(founder, response) ==
    IF response.kind = "raise" THEN EnsureKeys(founder)
    ELSE LET text == EnricherCleanup(response.content) IN
         IF LoadsRaises(text) THEN EnsureKeys(founder)
         ELSE IF Loads(text).type # "object" THEN EnsureKeys(founder)
              ELSE EnsureKeys(Update(founder, Loads(text).v))

\* graph.py:153-166, one founder after its extraction call: merged with the
\* extracted keys, or the original record when anything in the try raised
\* (the call, json.loads, or dict.update of a JSON number).
EnrichFounder(founder, response) ==
    IF response.kind = "raise" THEN founder
    ELSE LET text == EnricherCleanup(response.content) IN
         IF LoadsRaises(text) THEN founder
         ELSE IF Loads(text).type # "object" THEN founder
              ELSE EnsureKeys(Update(founder, Loads(text).v))

\* graph.py:122, state["company_info"] raises KeyError when no Researcher
\* pass has set the channel.
EnricherRaises(st) == "company_info" \notin DOMAIN st

\* enricher_node whose loop ends at the first founder whose call raises:
\* that founder and the ones after it are kept as they were.
enricher_node_stops(st, responses) ==
    LET info == st.company_info
        founders == GetD(info, "founders", <<>>)
    IN IF ~Truthy(founders)
       THEN [logs |-> GetD(st, "logs", <<>>) \o <<S("No founders to enrich.")>>]
       ELSE [company_info |->
                Update(info,
                       [founders |->
                           [i \in 1..Len(founders) |->
                               IF \E j \in 1..i : responses[j].kind = "raise"
                               THEN founders[i]
                               ELSE EnrichFounder(founders[i], responses[i])]])]

IsKept(entry) == entry.keep

\* enricher_node that leaves out the founders whose extraction call raised.
enricher_node_drops_failed(st, responses) ==
    LET info == st.company_info
        founders == GetD(info, "founders", <<>>)
        entries == SelectSeq([i \in 1..Len(founders) |->
                                 [keep |-> responses[i].kind # "raise",
                                  founder |->
                                     EnrichFounder(founders[i], responses[i])]],
                             IsKept)
    IN IF ~Truthy(founders)
       THEN [logs |-> GetD(st, "logs", <<>>) \o <<S("No founders to enrich.")>>]
       ELSE [company_info |->
                Update(info,
                       [founders |->
                           [i \in 1..Len(entries) |-> entries[i].founder]])]

\* graph.py:122-169, what enricher_node returns; responses[i] is the model
\* response for the i-th founder.
enricher_node(st, responses) ==
    LET info == st.company_info
        founders == GetD(info, "founders", <<>>)
    IN IF ~Truthy(founders)
       THEN [logs |-> GetD(st, "logs", <<>>) \o <<S("No founders to enrich.")>>]
       ELSE [company_info |->
                Update(info,
                       [founders |->
                           [i \in 1..Len(founders) |->
                               EnrichFounder(founders[i], responses[i])]])]

\* graph.py:191 and 202, re.match of
\*   https?://(www\.)?(twitter\.com|x\.com)/.+
\* on a URL given as its parts.
TwitterHost(url) ==
    IF Len(url) >= 3 /\ url[3] = "www." THEN SubSeq(url, 4, Len(url))
    ELSE SubSeq(url, 3, Len(url))

\* TwitterMatch for the pattern without its path part (no /.+ at the end).
TwitterMatch_no_path(url) ==
    /\ Len(url) >= 2
    /\ url[1] \in {"http", "https"}
    /\ url[2] = "://"
    /\ LET rest == TwitterHost(url) IN
        /\ Len(rest) >= 1
        /\ rest[1] \in {"twitter.com", "x.com"}

TwitterMatch(url) ==
    /\ Len(url) >= 2
    /\ url[1] \in {"http", "https"}
    /\ url[2] = "://"
    /\ LET rest == TwitterHost(url) IN
        /\ Len(rest) >= 3
        /\ rest[1] \in {"twitter.com", "x.com"}
        /\ rest[2] = "/"

Digits == {"0", "1", "2", "3", "4", "5", "6", "7", "8", "9"}

\* SuspiciousStaff that accepts a value only when it has a digit and is
\* longer than one character.
SuspiciousStaff_and(staff) ==
    /\ Truthy(staff)
    /\ ~((\E i \in 1..Len(staff) : staff[i] \in Digits) /\ Len(staff) > 1)

\* graph.py:196, a string given character by character.
SuspiciousStaff(staff) ==
    /\ Truthy(staff)
    /\ ~((\E i \in 1..Len(staff) : staff[i] \in Digits) \/ Len(staff) > 1)

\* FounderErrors that looks at the first founder only.
FounderErrors_first_only(founders) ==
    IF founders = <<>> THEN <<>>
    ELSE LET founder == Head(founders)
             f_twitter == Get(founder, "twitter_url")
         IN IF Truthy(f_twitter) /\ ~TwitterMatch(f_twitter)
            THEN << S("Invalid Founder Twitter URL (")
                    \o Str(Get(founder, "name")) \o S("): ") \o f_twitter >>
            ELSE <<>>

\* graph.py:199-203, the defects of the founders, in founder order.
RECURSIVE FounderErrors(_)
FounderErrors(founders) ==
    IF founders = <<>> THEN <<>>
    ELSE LET founder == Head(founders)
             f_twitter == Get(founder, "twitter_url")
         IN (IF Truthy(f_twitter) /\ ~TwitterMatch(f_twitter)
             THEN << S("Invalid Founder Twitter URL (")
                     \o Str(Get(founder, "name")) \o S("): ") \o f_twitter >>
             ELSE <<>>)
            \o FounderErrors(Tail(founders))

\* ValidationErrors that stops at the first rule that is violated.
ValidationErrors_first(info) ==
    IF ~Truthy(Get(info, "domain"))
    THEN <<S("Missing Company Domain")>>
    ELSE IF ~Truthy(Get(info, "founders"))
    THEN <<S("No Founders Identified")>>
    ELSE IF Truthy(Get(info, "twitter_url")) /\ ~TwitterMatch(info.twitter_url)
    THEN <<S("Invalid Company Twitter URL: ") \o info.twitter_url>>
    ELSE IF SuspiciousStaff(Get(info, "staff_strength"))
    THEN <<S("Suspicious Staff Strength: ") \o info.staff_strength>>
    ELSE SubSeq(FounderErrors(GetD(info, "founders", <<>>)), 1, 1)

\* ValidationErrors without the rule on the founders list.
ValidationErrors_no_founders_rule(info) ==
    (IF ~Truthy(Get(info, "domain"))
     THEN <<S("Missing Company Domain")>> ELSE <<>>)
    \o (IF Truthy(Get(info, "twitter_url")) /\ ~TwitterMatch(info.twitter_url)
        THEN <<S("Invalid Company Twitter URL: ") \o info.twitter_url>>
        ELSE <<>>)
    \o (IF SuspiciousStaff(Get(info, "staff_strength"))
        THEN <<S("Suspicious Staff Strength: ") \o info.staff_strength>>
        ELSE <<>>)
    \o FounderErrors(GetD(info, "founders", <<>>))

\* graph.py:176-203, the defects of a company_info.
ValidationErrors(info) ==
    (IF ~Truthy(Get(info, "domain"))
     THEN <<S("Missing Company Domain")>> ELSE <<>>)
    \o (IF ~Truthy(Get(info, "founders"))
        THEN <<S("No Founders Identified")>> ELSE <<>>)
    \o (IF Truthy(Get(info, "twitter_url")) /\ ~TwitterMatch(info.twitter_url)
        THEN <<S("Invalid Company Twitter URL: ") \o info.twitter_url>>
        ELSE <<>>)
    \o (IF SuspiciousStaff(Get(info, "staff_strength"))
        THEN <<S("Suspicious Staff Strength: ") \o info.staff_strength>>
        ELSE <<>>)
    \o FounderErrors(GetD(info, "founders", <<>>))

\* validator_node that appends the defects to the errors already there.
validator_node_accumulates(st) ==
    LET errors == ValidationErrors(st.company_info)
    IN Update(st, [is_valid |-> errors = <<>>,
                   errors |-> GetD(st, "errors", <<>>) \o errors,
                   retry_count |-> GetD(st, "retry_count", 0) + 1])

\* validator_node that counts only the runs that found defects.
validator_node_counts_failures(st) ==
    LET errors == ValidationErrors(st.company_info)
    IN Update(st, [is_valid |-> errors = <<>>,
                   errors |-> errors,
                   retry_count |-> GetD(st, "retry_count", 0)
                                   + (IF errors = <<>> THEN 0 ELSE 1)])

IsResearcherError(error) == error[1] = "Researcher Error: "

\* validator_node that keeps the diagnostics of the Researcher in front of
\* the defects.
validator_node_keeps_diagnostics(st) ==
    LET errors == ValidationErrors(st.company_info)
    IN Update(st, [is_valid |-> errors = <<>>,
                   errors |-> SelectSeq(GetD(st, "errors", <<>>),
                                        IsResearcherError) \o errors,
                   retry_count |-> GetD(st, "retry_count", 0) + 1])

\* validator_node that takes a company Twitter URL it found invalid out of
\* the profile.
validator_node_scrubs_twitter(st) ==
    LET info == st.company_info
        errors == ValidationErrors(info)
        bad == Truthy(Get(info, "twitter_url")) /\ ~TwitterMatch(info.twitter_url)
    IN Update(st, [is_valid |-> errors = <<>>,
                   errors |-> errors,
                   company_info |->
                      IF bad THEN Update(info, [twitter_url |-> None])
                      ELSE info,
                   retry_count |-> GetD(st, "retry_count", 0) + 1])

\* graph.py:171-211, validator_node returns the whole state.
validator_node(st) ==
    LET errors == ValidationErrors(st.company_info)
    IN Update(st, [is_valid |-> errors = <<>>,
                   errors |-> errors,
                   retry_count |-> GetD(st, "retry_count", 0) + 1])

\* router with a budget of two retries instead of one.
router_two_retries(st) ==
    IF st.is_valid THEN "END"
    ELSE IF st.retry_count > 2 THEN "END"
    ELSE "researcher"

\* router that never retries.
router_no_retry(st) ==
    IF st.is_valid THEN "END"
    ELSE IF st.retry_count > 0 THEN "END"
    ELSE "researcher"

\* router whose retry re-enters at the enricher.
router_retry_enricher(st) ==
    IF st.is_valid THEN "END"
    ELSE IF st.retry_count > 1 THEN "END"
    ELSE "enricher"

\* router that does not look at is_valid.
router_ignores_valid(st) ==
    IF st.retry_count > 1 THEN "END"
    ELSE "researcher"

\* graph.py:213-223
router(st) ==
    IF st.is_valid THEN "END"
    ELSE IF st.retry_count > 1 THEN "END"
    ELSE "researcher"

-----------------------------------------------------------------------------
(* main.py: the batch loop *)

\* main.py:33
RowCompanyName(row) == Or(Get(row, "Company Name"), Get(row, "name"))

\* main.py:34
RowLinkedIn(row) == Or(Get(row, "LinkedIn URL"), Get(row, "linkedin_url"))

\* initial_state whose error list is one list shared by all runs: it still
\* holds what the run before left in it.
initial_state_shared_errors(row) ==
    [company_name |-> RowCompanyName(row),
     company_linkedin |-> RowLinkedIn(row),
     retry_count |-> 0,
     logs |-> <<>>,
     errors |-> IF results = <<>> THEN <<>>
                ELSE <<results[Len(results)]["Errors"]>>]

\* main.py:42-48
initial_state(row) ==
    [company_name |-> RowCompanyName(row),
     company_linkedin |-> RowLinkedIn(row),
     retry_count |-> 0,
     logs |-> <<>>,
     errors |-> <<>>]

\* TruthyValues that keeps an entry for every founder, empty when the
\* founder has no value.
RECURSIVE TruthyValues_all(_, _)
TruthyValues_all(founders, key) ==
    IF founders = <<>> THEN <<>>
    ELSE <<Or(Get(Head(founders), key), <<>>)>>
         \o TruthyValues_all(Tail(founders), key)

\* main.py:61-64, [f.get(key, "") for f in founders if f.get(key)]
RECURSIVE TruthyValues(_, _)
TruthyValues(founders, key) ==
    IF founders = <<>> THEN <<>>
    ELSE (IF Truthy(Get(Head(founders), key))
          THEN <<Head(founders)[key]>> ELSE <<>>)
         \o TruthyValues(Tail(founders), key)

\* main.py:60, [f.get("name", "") for f in founders]
FounderNames(founders) ==
    [i \in 1..Len(founders) |-> GetD(founders[i], "name", <<>>)]

\* str.join raises TypeError on an item that is no str.
JoinRaises(strs) == \E i \in 1..Len(strs) : strs[i] = None

FinalInfo(final_state) == GetD(final_state, "company_info", EmptyDict)

\* main.py:52-80 raises when the founder names cannot be joined.
FlattenRaises(final_state) ==
    JoinRaises(FounderNames(GetD(FinalInfo(final_state), "founders", <<>>)))

\* main.py:52-80
result_row(company_name, final_state) ==
    LET info == FinalInfo(final_state)
        founders == GetD(info, "founders", <<>>)
    IN ("Input Company" :> company_name)
       @@ ("Domain" :> GetD(info, "domain", <<>>))
       @@ ("Description" :> GetD(info, "description", <<>>))
       @@ ("Staff Strength" :> GetD(info, "staff_strength", <<>>))
       @@ ("Company LinkedIn" :> GetD(info, "linkedin_url", <<>>))
       @@ ("Company Twitter" :> GetD(info, "twitter_url", <<>>))
       @@ ("Company Phone" :> GetD(info, "phone", <<>>))
       @@ ("Founder Names" :> Join(S("; "), FounderNames(founders)))
       @@ ("Founder Emails" :> Join(S("; "), TruthyValues(founders, "email")))
       @@ ("Founder Phones" :> Join(S("; "), TruthyValues(founders, "phone")))
       @@ ("Founder LinkedIns" :>
              Join(S("; "), TruthyValues(founders, "linkedin_url")))
       @@ ("Founder Twitters" :>
              Join(S("; "), TruthyValues(founders, "twitter_url")))
       @@ ("Errors" :> Join(S("; "), GetD(final_state, "errors", <<>>)))

-----------------------------------------------------------------------------
(* The inputs and the provider answers the model draws from *)

Acme == S("Acme Corp")
Globex == S("Globex")
AcmeLinkedIn == S("linkedin.com/company/acme")

\* Rows of the input CSV: both spellings of the columns, a company name
\* that is empty, and a row without one.
RowFull == ("Company Name" :> Acme) @@ ("LinkedIn URL" :> AcmeLinkedIn)
RowAlt == ("Company Name" :> <<>>) @@ ("name" :> Globex)
RowNoName == ("Company Name" :> <<>>) @@ ("linkedin_url" :> AcmeLinkedIn)
Rows == {RowFull, RowAlt, RowNoName}

XAcme == <<"https", "://", "x.com", "/", "acme">>
FbAcme == <<"https", "://", "facebook.com", "/", "acme">>
XJane == <<"http", "://", "www.", "twitter.com", "/", "jane">>
FbJane == <<"https", "://", "facebook.com", "/", "jane">>

\* Company-level fields of an extraction: all found, only the domain, all
\* null, a Twitter URL of another site, a one-letter staff strength.
ScalarsAll ==
    [domain |-> S("acme.com"), description |-> S("Makes anvils"),
     twitter_url |-> XAcme, phone |-> S("+1 555 0100"),
     staff_strength |-> <<"5", "0", "-", "2", "0", "0">>]
ScalarsDomain == [domain |-> S("acme.com")]
ScalarsNull ==
    [domain |-> None, description |-> None, twitter_url |-> None,
     phone |-> None, staff_strength |-> None]
ScalarsBadTwitter == [domain |-> S("acme.org"), twitter_url |-> FbAcme]
ScalarsBadStaff == [description |-> S("Makes anvils"), staff_strength |-> <<"x">>]
ScalarVariants ==
    {ScalarsAll, ScalarsDomain, ScalarsNull, ScalarsBadTwitter, ScalarsBadStaff}

FounderNamesPool == <<"Jane Doe", "Bob Roe", "Carol Poe", "Dan Moe">>

ExtractedFounder(i) ==
    IF i % 2 = 1
    THEN [name |-> S(FounderNamesPool[i]), title |-> S("CEO"),
          linkedin_url |-> S("linkedin.com/in/") \o S(FounderNamesPool[i])]
    ELSE [name |-> S(FounderNamesPool[i]), title |-> S("CTO")]

\* The founder lists an extraction returns: up to MaxFounders founders.
FounderLists ==
    {[i \in 1..(b - a + 1) |-> ExtractedFounder(a + i - 1)] :
        a \in 1..MaxFounders, b \in 0..MaxFounders}

FounderVariants == {EmptyDict} \cup {[founders |-> l] : l \in FounderLists}

ResearcherData == {sv @@ fv : sv \in ScalarVariants, fv \in FounderVariants}

\* Answers of the model to the Researcher: it raises, prose without JSON,
\* a JSON number, a JSON object, alone or fenced with prose around it.
ResearcherResponses ==
    {Raises, Responds(<<Prose>>), Responds(<<JsonNumber>>)}
    \cup {Responds(<<JsonObject(d)>>) : d \in ResearcherData}
    \cup {Responds(<<Prose, FenceJson, JsonObject(ScalarsDomain), Fence, Prose>>),
          Responds(<<Fence, JsonObject(ScalarsNull), Fence>>)}

\* Outcomes of the four searches of the Researcher.
ResearcherSearches ==
    {<<"ok", "ok", "ok", "ok">>, <<"raise", "ok", "raise", "raise">>}

EnrichEmail == [email |-> S("jane@acme.com")]
EnrichBadTwitter == [twitter_url |-> FbJane, phone |-> S("+1 555 0101")]
EnrichAll ==
    [twitter_url |-> XJane, email |-> None, phone |-> None,
     linkedin_url |-> S("linkedin.com/in/jd")]

\* What the providers do for one founder: the outcomes of the two searches
\* and the answer of the model.
FounderOutcome(s1, s2, response) ==
    [search |-> s1, twitter |-> s2, response |-> response]

EnricherOutcomes ==
    {FounderOutcome("ok", "ok", Raises),
     FounderOutcome("raise", "raise",
                    Responds(<<Prose, JsonObject(EnrichEmail)>>)),
     FounderOutcome("ok", "ok",
                    Responds(<<FenceJson, JsonObject(EnrichEmail), Fence>>)),
     FounderOutcome("ok", "raise", Responds(<<JsonObject(EnrichAll)>>)),
     FounderOutcome("raise", "ok", Responds(<<JsonObject(EnrichBadTwitter)>>))}

-----------------------------------------------------------------------------
(* The state machine *)

NoRun == EmptyDict

ZeroStats ==
    [researcher |-> 0, enricher |-> 0, validator |-> 0,
     researcher_searches |-> 0, researcher_extractions |-> 0,
     enricher_searches |-> 0, enricher_extractions |-> 0]

Call(op, arg, out) == [op |-> op, arg |-> arg, out |-> out]

\* ResearcherCalls without the search for the phone number.
ResearcherCalls_no_phone(company_name, outcomes, response) ==
    <<Call("search_company_info", company_name, search(outcomes[1])),
      Call("search_founders", company_name, search(outcomes[2])),
      Call("search_company_twitter", company_name, search(outcomes[3])),
      Call("llm.invoke", company_name, response)>>

\* graph.py:36-45 and 77, the calls of one Researcher pass, in order.
ResearcherCalls(company_name, outcomes, response) ==
    <<Call("search_company_info", company_name, search(outcomes[1])),
      Call("search_founders", company_name, search(outcomes[2])),
      Call("search_company_twitter", company_name, search(outcomes[3])),
      Call("search_company_phone", company_name, search(outcomes[4])),
      Call("llm.invoke", company_name, response)>>

\* graph.py:135-136 and 154, the calls for one founder, in order.
FounderCalls(founder, outcome) ==
    <<Call("enrich_founder", Get(founder, "name"), search(outcome.search)),
      Call("search_founder_twitter", Get(founder, "name"),
           search(outcome.twitter)),
      Call("llm.invoke", Get(founder, "name"), outcome.response)>>

\* graph.py:132, the calls of the loop over the founders.
EnricherCalls(founders, outcomes) ==
    [j \in 1..(3 * Len(founders)) |->
        FounderCalls(founders[((j - 1) \div 3) + 1],
                     outcomes[((j - 1) \div 3) + 1])[((j - 1) % 3) + 1]]

\* The founders the loop of enricher_node runs over (none when it returns
\* early at graph.py:125).
EnrichedFounders(st) ==
    LET founders == GetD(st.company_info, "founders", <<>>)
    IN IF Truthy(founders) THEN founders ELSE <<>>

InitWith(batches) ==
    /\ inputs \in batches
    /\ idx = 1
    /\ results = <<>>
    /\ output = None
    /\ pc = "main"
    /\ state = NoRun
    /\ calls = <<>>
    /\ stats = ZeroStats

\* main.py:36-38, a row without a company name is skipped.
SkipRow ==
    /\ pc = "main"
    /\ idx <= Len(inputs)
    /\ ~Truthy(RowCompanyName(inputs[idx]))
    /\ idx' = idx + 1
    /\ UNCHANGED <<inputs, results, output, pc, state, calls, stats>>

\* main.py:40-51 and graph.py:232, the graph is invoked and enters at the
\* researcher.
StartRow ==
    /\ pc = "main"
    /\ idx <= Len(inputs)
    /\ Truthy(RowCompanyName(inputs[idx]))
    /\ state' = initial_state(inputs[idx])
    /\ pc' = "researcher"
    /\ UNCHANGED <<inputs, idx, results, output, calls, stats>>

\* An exception that a search_* method lets out leaves the node that
\* called it: graph.py:36-45 and 135-136 are outside every try block.
IsRaise(out) == "raised" \in DOMAIN out

StageRaises(stage_calls) ==
    \E i \in 1..Len(stage_calls) :
        stage_calls[i].op # "llm.invoke" /\ IsRaise(stage_calls[i].out)

\* The calls a node has made when one of its searches raises.
RECURSIVE CallsUntilRaise(_)
CallsUntilRaise(stage_calls) ==
    IF stage_calls = <<>> THEN <<>>
    ELSE IF Head(stage_calls).op # "llm.invoke" /\ IsRaise(Head(stage_calls).out)
         THEN <<Head(stage_calls)>>
         ELSE <<Head(stage_calls)>> \o CallsUntilRaise(Tail(stage_calls))

\* graph.py:28-116 and the edge researcher -> enricher (graph.py:234).
Researcher(searches, responses) ==
    /\ pc = "researcher"
    /\ \E outcomes \in searches, response \in responses :
        LET stage_calls ==
                ResearcherCalls(state.company_name, outcomes, response)
        IN IF StageRaises(stage_calls)
           THEN /\ pc' = "aborted"
                /\ calls' = CallsUntilRaise(stage_calls)
                /\ stats' = [stats EXCEPT !.researcher = @ + 1]
                /\ UNCHANGED state
           ELSE /\ state' = Update(state, researcher_node(state, response))
                /\ calls' = stage_calls
                /\ pc' = "enricher"
                /\ stats' = [stats EXCEPT !.researcher = @ + 1,
                                          !.researcher_searches = @ + 4,
                                          !.researcher_extractions = @ + 1]
    /\ UNCHANGED <<inputs, idx, results, output>>

\* graph.py:118-169 and the edge enricher -> validator (graph.py:235); the
\* KeyError of graph.py:122 leaves execution_graph.invoke.
Enricher(founder_outcomes) ==
    /\ pc = "enricher"
    /\ IF EnricherRaises(state)
       THEN /\ pc' = "aborted"
            /\ calls' = <<>>
            /\ stats' = [stats EXCEPT !.enricher = @ + 1]
            /\ UNCHANGED state
       ELSE \E outcomes \in
                [1..Len(EnrichedFounders(state)) -> founder_outcomes] :
            LET stage_calls == EnricherCalls(EnrichedFounders(state), outcomes)
            IN IF StageRaises(stage_calls)
               THEN /\ pc' = "aborted"
                    /\ calls' = CallsUntilRaise(stage_calls)
                    /\ stats' = [stats EXCEPT !.enricher = @ + 1]
                    /\ UNCHANGED state
               ELSE /\ state' =
                         Update(state,
                                enricher_node(state,
                                    [i \in 1..Len(outcomes) |->
                                        outcomes[i].response]))
                    /\ calls' = stage_calls
                    /\ pc' = "validator"
                    /\ stats' =
                         [stats EXCEPT
                             !.enricher = @ + 1,
                             !.enricher_searches = @ + 2 * Len(outcomes),
                             !.enricher_extractions = @ + Len(outcomes)]
    /\ UNCHANGED <<inputs, idx, results, output>>

\* graph.py:171-223 and the conditional edges of graph.py:236-239.
Validator ==
    /\ pc = "validator"
    /\ state' = Update(state, validator_node(state))
    /\ pc' = router(state')
    /\ calls' = <<>>
    /\ stats' = [stats EXCEPT !.validator = @ + 1]
    /\ UNCHANGED <<inputs, idx, results, output>>

\* main.py:51-81, invoke returned the final state: the row is flattened
\* and collected (main.py:83 when flattening raises).
Collect ==
    /\ pc = "END"
    /\ results' =
         IF FlattenRaises(state) THEN results
         ELSE Append(results, result_row(RowCompanyName(inputs[idx]), state))
    /\ idx' = idx + 1
    /\ pc' = "main"
    /\ state' = NoRun
    /\ calls' = <<>>
    /\ stats' = ZeroStats
    /\ UNCHANGED <<inputs, output>>

\* main.py:83-84, an exception that left invoke is printed and the loop
\* goes on with the next row.
Except ==
    /\ pc = "aborted"
    /\ idx' = idx + 1
    /\ pc' = "main"
    /\ state' = NoRun
    /\ calls' = <<>>
    /\ stats' = ZeroStats
    /\ UNCHANGED <<inputs, results, output>>

\* main.py:86-95
WriteOutput ==
    /\ pc = "main"
    /\ idx > Len(inputs)
    /\ output' = IF results # <<>> THEN results ELSE None
    /\ pc' = "exit"
    /\ UNCHANGED <<inputs, idx, results, state, calls, stats>>

\* One input row, with or without a company name, every provider answer.
Init == InitWith({<<RowFull>>, <<RowNoName>>})

Next ==
    \/ SkipRow
    \/ StartRow
    \/ Researcher(ResearcherSearches, ResearcherResponses)
    \/ Enricher(EnricherOutcomes)
    \/ Validator
    \/ Collect
    \/ Except
    \/ WriteOutput

Spec == Init /\ [][Next]_vars

\* A batch of up to MaxRows rows, a few provider answers per call.
RECURSIVE Batches(_)
Batches(n) ==
    IF n = 0 THEN {<<>>}
    ELSE Batches(n - 1)
         \cup {Append(b, row) : b \in {c \in Batches(n - 1) : Len(c) = n - 1},
                                row \in Rows}

BatchResearcherResponses ==
    {Raises,
     Responds(<<JsonObject(ScalarsDomain
                           @@ [founders |-> <<ExtractedFounder(1)>>])>>),
     Responds(<<JsonObject(ScalarsNull)>>)}

BatchSearches ==
    {<<"ok", "ok", "ok", "ok">>, <<"raise", "raise", "raise", "raise">>}

BatchEnricherOutcomes ==
    {FounderOutcome("raise", "raise", Raises),
     FounderOutcome("ok", "ok", Responds(<<JsonObject(EnrichEmail)>>))}

BatchInit == InitWith(Batches(MaxRows))

BatchNext ==
    \/ SkipRow
    \/ StartRow
    \/ Researcher(BatchSearches, BatchResearcherResponses)
    \/ Enricher(BatchEnricherOutcomes)
    \/ Validator
    \/ Collect
    \/ Except
    \/ WriteOutput

SpecBatch == BatchInit /\ [][BatchNext]_vars

-----------------------------------------------------------------------------
(* Properties *)

\* C1: whenever the controller is in DONE, retry_count is 1 or 2, and it
\* is the number of Validator runs of this run.
DoneRetryCount ==
    pc = "END" =>
        /\ state.retry_count \in {1, 2}
        /\ stats.validator = state.retry_count

DoneAfterRetry ==
    pc = "END" /\ state.retry_count = 2 /\ stats.validator = 2

\* C2: every run reaches DONE: whatever the providers answer, no stage
\* failure takes a started run out of the graph before DONE.
NoRunAborted == pc # "aborted"

\* The rows of a batch that have a company name.
RECURSIVE NamedRows(_)
NamedRows(rows) ==
    IF rows = <<>> THEN 0
    ELSE (IF Truthy(RowCompanyName(Head(rows))) THEN 1 ELSE 0)
         + NamedRows(Tail(rows))

\* C3: when the batch is through, there is exactly one output row for every
\* input row with a company name, whatever the providers answered.
OneRowPerNamedInput ==
    pc = "exit" => Len(results) = NamedRows(inputs)

\* The extraction of a Researcher step parsed as a JSON object.
ResearcherParsed(response) ==
    /\ response.kind = "text"
    /\ ~LoadsRaises(ResearcherCleanup(response.content))
    /\ Loads(ResearcherCleanup(response.content)).type = "object"

ResearcherData0(response) == Loads(ResearcherCleanup(response.content)).v

\* The extraction of one founder parsed as a JSON object.
EnricherParsed(response) ==
    /\ response.kind = "text"
    /\ ~LoadsRaises(EnricherCleanup(response.content))
    /\ Loads(EnricherCleanup(response.content)).type = "object"

EnricherData0(response) == Loads(EnricherCleanup(response.content)).v

ResearcherStep == pc = "researcher" /\ pc' # pc
EnricherStep == pc = "enricher" /\ pc' # pc
ValidatorStep == pc = "validator" /\ pc' # pc

PriorFounders(st) ==
    IF "company_info" \in DOMAIN st THEN st.company_info.founders ELSE <<>>

\* C4: a Researcher pass whose extraction raises or does not parse as a
\* JSON object changes nothing but the error list, which gets exactly one
\* diagnostic more, and hands over to the Enricher.
ResearcherFailureIsNoOp ==
    [][(ResearcherStep /\ ~ResearcherParsed(calls'[5].out)) =>
        /\ pc' = "enricher"
        /\ DOMAIN state' = DOMAIN state
        /\ \A k \in DOMAIN state \ {"errors"} : state'[k] = state[k]
        /\ Len(state'.errors) = Len(state.errors) + 1
        /\ SubSeq(state'.errors, 1, Len(state.errors)) = state.errors
        /\ state'.errors[Len(state'.errors)][1] = "Researcher Error: "]_vars

FailedRetryPass ==
    /\ pc = "enricher"
    /\ stats.researcher = 2
    /\ calls[5].out.kind = "raise"
    /\ Len(state.errors) = 2
    /\ Truthy(state.company_info.founders)

\* C5: after a Validator run the controller goes to RESEARCH exactly when
\* is_valid is false and retry_count is not above 1, else to DONE; DONE is
\* never reached invalid with retry_count 1; the Researcher runs at most
\* twice, and as often as the Validator once DONE is reached.
RetryOnce ==
    /\ [][ValidatorStep =>
            IF ~state'.is_valid /\ ~(state'.retry_count > 1)
            THEN pc' = "researcher" ELSE pc' = "END"]_vars
    /\ [](pc = "END" => ~(~state.is_valid /\ state.retry_count = 1))
    /\ [](stats.researcher <= 2)
    /\ [](pc = "END" => stats.researcher = state.retry_count)

ValidAfterRetry ==
    pc = "END" /\ state.is_valid /\ stats.researcher = 2

\* C6: the stages run in the order RESEARCH, ENRICH, VALIDATE: ENRICH is
\* entered only from RESEARCH, VALIDATE only from ENRICH, RESEARCH only at
\* the start of a run or from VALIDATE, and DONE only from VALIDATE.
StageOrder ==
    [][/\ pc = "researcher" => pc' = "enricher"
       /\ pc' = "enricher" => pc = "researcher"
       /\ pc' = "validator" => pc = "enricher"
       /\ pc' = "researcher" => pc \in {"main", "validator"}
       /\ pc = "validator" => pc' \in {"researcher", "END"}
       /\ pc' = "END" => pc = "validator"]_vars

RetryEntersResearch ==
    pc = "researcher" /\ stats.validator = 1 /\ stats.enricher = 1

\* C7: after a Researcher pass whose extraction parsed, founders is the
\* extracted list when that is non-empty, and else what it was before the
\* pass (nothing on a first pass).
FoundersReplacedOrKept ==
    [][(ResearcherStep /\ ResearcherParsed(calls'[5].out)) =>
        LET data == ResearcherData0(calls'[5].out) IN
        state'.company_info.founders =
            IF "founders" \in DOMAIN data /\ data.founders # <<>>
            THEN data.founders
            ELSE PriorFounders(state)]_vars

EnrichedFoundersKept ==
    /\ pc = "enricher"
    /\ stats.researcher = 2
    /\ ResearcherParsed(calls[5].out)
    /\ "founders" \notin DOMAIN ResearcherData0(calls[5].out)
    /\ Len(state.company_info.founders) = 2
    /\ "email" \in DOMAIN state.company_info.founders[1]

ScalarKeys == {"domain", "description", "twitter_url", "phone", "staff_strength"}

MissingDomain == S("Missing Company Domain")

\* C8: after a Researcher pass whose extraction parsed, every company-level
\* field is what this extraction returned, None when it is null or absent;
\* a profile without domain is then validated with Missing Company Domain.
ScalarsOverwritten ==
    /\ [][(ResearcherStep /\ ResearcherParsed(calls'[5].out)) =>
            LET data == ResearcherData0(calls'[5].out) IN
            \A k \in ScalarKeys :
                state'.company_info[k] =
                    IF k \in DOMAIN data THEN data[k] ELSE None]_vars
    /\ [][(ValidatorStep /\ ~Truthy(state.company_info.domain)) =>
            /\ state'.errors[1] = MissingDomain
            /\ state.retry_count = 1 => pc' = "END"]_vars

\* The retry pass erased the domain the first pass had found: the defects
\* of the first validation have no Missing Company Domain.
DomainErasedByRetry ==
    /\ pc = "validator"
    /\ state.retry_count = 1
    /\ \A i \in 1..Len(state.errors) : state.errors[i] # MissingDomain
    /\ state.company_info.domain = None

\* The founders an Enricher step ran over, the answer of the model for the
\* i-th of them, and the founders after the step.
FoundersBefore == EnrichedFounders(state)
FoundersAfter == state'.company_info.founders
Extraction(cs, i) == cs[3 * i].out
RaisingFounders(cs) ==
    {i \in 1..(Len(cs) \div 3) : Extraction(cs, i).kind = "raise"}

\* after is before, overwritten with every key of data, with the keys
\* phone and email made to exist.
MergedRecord(before, data, after) ==
    /\ DOMAIN after = DOMAIN before \cup DOMAIN data \cup {"phone", "email"}
    /\ \A k \in DOMAIN data : after[k] = data[k]
    /\ \A k \in DOMAIN before \ DOMAIN data : after[k] = before[k]
    /\ \A k \in {"phone", "email"} \ (DOMAIN before \cup DOMAIN data) :
        after[k] = None

\* C9 as stated: when exactly one extraction call of an Enricher step
\* raises, the records of all other founders are as before the step, and
\* the run goes on to the Validator.
OthersUnchangedWhenOneRaises ==
    [][(EnricherStep /\ Cardinality(RaisingFounders(calls')) = 1) =>
        /\ pc' = "validator"
        /\ \A j \in (1..Len(FoundersBefore)) \ RaisingFounders(calls') :
            FoundersAfter[j] = FoundersBefore[j]]_vars

\* C9 amended: when exactly one extraction call of an Enricher step raises,
\* the record of that founder is as before the step, the record of every
\* other founder is its own record overwritten with the keys of its own
\* extraction (as before the step when that does not parse), and the run
\* goes on to the Validator.
OneRaisingFounderIsolated ==
    [][(EnricherStep /\ Cardinality(RaisingFounders(calls')) = 1) =>
        /\ pc' = "validator"
        /\ Len(FoundersAfter) = Len(FoundersBefore)
        /\ \A j \in 1..Len(FoundersBefore) :
            IF EnricherParsed(Extraction(calls', j))
            THEN MergedRecord(FoundersBefore[j],
                              EnricherData0(Extraction(calls', j)),
                              FoundersAfter[j])
            ELSE FoundersAfter[j] = FoundersBefore[j]]_vars

FirstRaisesSecondEnriched ==
    /\ pc = "validator"
    /\ Len(calls) = 6
    /\ RaisingFounders(calls) = {1}
    /\ EnricherParsed(Extraction(calls, 2))
    /\ "email" \notin DOMAIN state.company_info.founders[1]
    /\ state.company_info.founders[2].email = S("jane@acme.com")

\* C10: a founder whose extraction call raises or whose extraction does not
\* parse has the same record after the Enricher step as before it, and
\* every founder is processed: the step issues the two searches and the
\* extraction call of every founder, in founder order, and every founder
\* whose own extraction parses has the keys of that extraction, also after
\* a founder that failed.
FailedFounderUntouched ==
    [][(EnricherStep /\ pc' = "validator") =>
        /\ Len(FoundersAfter) = Len(FoundersBefore)
        /\ Len(calls') = 3 * Len(FoundersBefore)
        /\ \A i \in 1..Len(FoundersBefore) :
            /\ ~EnricherParsed(Extraction(calls', i)) =>
                   FoundersAfter[i] = FoundersBefore[i]
            /\ calls'[3 * i - 2].op = "enrich_founder"
            /\ calls'[3 * i - 1].op = "search_founder_twitter"
            /\ calls'[3 * i].op = "llm.invoke"
            /\ \A c \in {calls'[3 * i - 2], calls'[3 * i - 1], calls'[3 * i]} :
                   c.arg = Get(FoundersBefore[i], "name")
            /\ EnricherParsed(Extraction(calls', i)) =>
                   \A k \in DOMAIN EnricherData0(Extraction(calls', i)) :
                       FoundersAfter[i][k] =
                           EnricherData0(Extraction(calls', i))[k]]_vars

UnparsedThenEnriched ==
    /\ pc = "validator"
    /\ Len(calls) = 6
    /\ Extraction(calls, 1).kind = "text"
    /\ ~EnricherParsed(Extraction(calls, 1))
    /\ EnricherParsed(Extraction(calls, 2))
    /\ DOMAIN state.company_info.founders[1] = {"name", "title", "linkedin_url"}
    /\ "twitter_url" \in DOMAIN state.company_info.founders[2]

-----------------------------------------------------------------------------
(* validator_node on its own: the profiles a run can hand to the Validator, *)
(* validated up to MaxValidations times with no other stage in between.     *)

XEmptyPath == <<"https", "://", "x.com", "/">>
WwwTwitterAcme == <<"http", "://", "www.", "twitter.com", "/", "acme", "/", "about">>
NoSchemeX == <<"x.com", "/", "acme">>

TwitterValues ==
    {None, <<>>, XAcme, FbAcme, XEmptyPath, WwwTwitterAcme, NoSchemeX}

StaffValues ==
    {None, <<>>, <<"x">>, <<"5">>, <<"x", "y">>,
     <<"5", "0", "-", "2", "0", "0">>}

DomainValues == {None, <<>>, S("acme.com")}

\* A founder as the Enricher can leave it: not enriched, or with one of the
\* Twitter URLs.
FounderTwitterValues == {None, <<>>, XJane, FbJane}

ProfileFounder(i, twitter) ==
    EnsureKeys(Update(ExtractedFounder(i), [twitter_url |-> twitter]))

RECURSIVE ProfileFounderLists(_)
ProfileFounderLists(n) ==
    IF n = 0 THEN {<<>>}
    ELSE ProfileFounderLists(n - 1)
         \cup {Append(l, f) :
                 l \in {m \in ProfileFounderLists(n - 1) : Len(m) = n - 1},
                 f \in {ExtractedFounder(n)}
                       \cup {ProfileFounder(n, t) : t \in FounderTwitterValues}}

Profiles ==
    {Update(NewCompanyInfo(initial_state(RowFull)),
            [domain |-> d, description |-> None, twitter_url |-> t,
             phone |-> None, staff_strength |-> st, founders |-> fl]) :
        d \in DomainValues, t \in TwitterValues, st \in StaffValues,
        fl \in ProfileFounderLists(MaxFounders)}

\* The state at the entry of the Validator: in the first pass, or in the
\* retry pass, after a first validation that found defects and a Researcher
\* pass that parsed or failed.
FirstDefects == <<S("Missing Company Domain")>>

ValidatorEntries ==
    {initial_state(RowFull),
     Update(initial_state(RowFull),
            [retry_count |-> 1, is_valid |-> FALSE, errors |-> FirstDefects]),
     Update(initial_state(RowFull),
            [retry_count |-> 1, is_valid |-> FALSE,
             errors |-> FirstDefects
                        \o <<S("Researcher Error: ") \o JSONDecodeError>>])}

ValidatorStates ==
    {Update(entry, [company_info |-> info]) :
        entry \in ValidatorEntries, info \in Profiles}

ValidatorInit ==
    /\ inputs = <<RowFull>>
    /\ idx = 1
    /\ results = <<>>
    /\ output = None
    /\ pc = "validator"
    /\ state \in ValidatorStates
    /\ calls = <<>>
    /\ stats = ZeroStats

\* graph.py:171-211, validator_node applied to the state as it is.
ValidatorOnly ==
    /\ pc = "validator"
    /\ stats.validator < MaxValidations
    /\ state' = Update(state, validator_node(state))
    /\ stats' = [stats EXCEPT !.validator = @ + 1]
    /\ UNCHANGED <<inputs, idx, results, output, pc, calls>>

SpecValidator == ValidatorInit /\ [][ValidatorOnly]_vars

\* A Validator run, in a run of the graph or on its own.
Validated == pc = "validator" /\ state' # state

\* The last stage that ran was the Validator, on the state as it is now.
JustValidated ==
    stats.validator >= 1 /\ stats.researcher = 0 /\ stats.enricher = 0

\* C11: a Validator run right after a Validator run gives the same defects
\* and the same is_valid, leaves the profile and every other field as they
\* were, and only adds one to retry_count.
ValidatorIdempotent ==
    [][(Validated /\ JustValidated) =>
        /\ state'.errors = state.errors
        /\ state'.is_valid = state.is_valid
        /\ state'.company_info = state.company_info
        /\ state'.retry_count = state.retry_count + 1
        /\ DOMAIN state' = DOMAIN state
        /\ \A k \in DOMAIN state \ {"retry_count"} : state'[k] = state[k]]_vars

ValidatedTwiceWithDefects ==
    /\ pc = "validator"
    /\ stats.validator = 2
    /\ JustValidated
    /\ ~state.is_valid
    /\ Len(state.errors) = 5

\* C12: in every state of a run after its first Validator run, the stages
\* of the retry pass included, is_valid is true exactly when the error
\* list is empty.
ValidIffNoErrors ==
    stats.validator >= 1 =>
        /\ "is_valid" \in DOMAIN state
        /\ state.is_valid <=> (state.errors = <<>>)

RetryPassBeforeValidator ==
    /\ pc = "validator"
    /\ stats.validator = 1
    /\ stats.researcher = 2
    /\ stats.enricher = 2
    /\ ~state.is_valid
    /\ Len(state.errors) = 3

-----------------------------------------------------------------------------
(* The rules of the Validator, stated on the profile *)

Present(d, key) == key \in DOMAIN d /\ d[key] # None /\ d[key] # <<>>

\* url is http(s)://[www.](twitter.com|x.com)/ followed by a path that is
\* not empty.
IsTwitterUrl(url) ==
    \E scheme \in {"http", "https"}, www \in {<<>>, <<"www.">>},
       host \in {"twitter.com", "x.com"} :
        LET prefix == <<scheme, "://">> \o www \o <<host, "/">>
        IN Len(url) > Len(prefix) /\ SubSeq(url, 1, Len(prefix)) = prefix

BadTwitter(d) == Present(d, "twitter_url") /\ ~IsTwitterUrl(d.twitter_url)

SingleNonDigit(d) ==
    /\ Present(d, "staff_strength")
    /\ Len(d.staff_strength) = 1
    /\ d.staff_strength[1] \notin Digits

ProfileFounders(info) ==
    IF Present(info, "founders") THEN info.founders ELSE <<>>

Rule(violated, defect) == [violated |-> violated, defect |-> defect]

\* The rules in their order, each with the defect it gives when violated.
Rules(info) ==
    << Rule(~Present(info, "domain"), S("Missing Company Domain")),
       Rule(~Present(info, "founders"), S("No Founders Identified")),
       Rule(BadTwitter(info),
            S("Invalid Company Twitter URL: ")
            \o (IF BadTwitter(info) THEN info.twitter_url ELSE <<>>)),
       Rule(SingleNonDigit(info),
            S("Suspicious Staff Strength: ")
            \o (IF SingleNonDigit(info) THEN info.staff_strength ELSE <<>>)) >>
    \o [i \in 1..Len(ProfileFounders(info)) |->
           LET f == ProfileFounders(info)[i] IN
           Rule(BadTwitter(f),
                S("Invalid Founder Twitter URL (") \o f.name \o S("): ")
                \o (IF BadTwitter(f) THEN f.twitter_url ELSE <<>>))]

IsViolated(rule) == rule.violated

Defects(rules) ==
    LET violated == SelectSeq(rules, IsViolated)
    IN [i \in 1..Len(violated) |-> violated[i].defect]

\* C13: a Validator run checks every rule: its defects are the defects of
\* the violated rules, one each, in rule order (domain, founders, company
\* Twitter URL, staff strength, then the founders in their order), and
\* nothing for a rule that is satisfied.
EveryRuleChecked ==
    [][Validated => state'.errors = Defects(Rules(state.company_info))]_vars

FourCompanyDefects ==
    /\ pc = "validator"
    /\ stats.validator = 1
    /\ state.company_info.founders = <<>>
    /\ Len(state.errors) = 4
    /\ state.errors[1] = S("Missing Company Domain")
    /\ state.errors[2] = S("No Founders Identified")

CompanyTwitterDefects(errors) ==
    {i \in 1..Len(errors) : errors[i][1] = "Invalid Company Twitter URL: "}

\* C14: the Validator gives no company Twitter defect when twitter_url is
\* empty or absent; when it is present it gives one defect, naming the
\* URL, exactly when the URL is not http(s)://[www.](twitter.com|x.com)/
\* with a path that is not empty: https://x.com/acme passes,
\* https://facebook.com/acme and https://x.com/ fail.
CompanyTwitterRule ==
    [][Validated =>
        LET info == state.company_info
            defects == CompanyTwitterDefects(state'.errors)
        IN /\ ~Present(info, "twitter_url") => defects = {}
           /\ Present(info, "twitter_url") =>
                /\ IsTwitterUrl(info.twitter_url) <=> defects = {}
                /\ Cardinality(defects) <= 1
                /\ \A i \in defects :
                     state'.errors[i] =
                        S("Invalid Company Twitter URL: ") \o info.twitter_url
                /\ info.twitter_url = <<"https", "://", "x.com", "/", "acme">>
                     => defects = {}
                /\ info.twitter_url
                     = <<"https", "://", "facebook.com", "/", "acme">>
                     => defects # {}
                /\ info.twitter_url = <<"https", "://", "x.com", "/">>
                     => defects # {}]_vars

EmptyPathFlagged ==
    /\ pc = "validator"
    /\ stats.validator >= 1
    /\ state.company_info.twitter_url = XEmptyPath
    /\ \E i \in 1..Len(state.errors) :
         state.errors[i] = S("Invalid Company Twitter URL: ") \o XEmptyPath

IsFounderDefect(error) == error[1] = "Invalid Founder Twitter URL ("

\* C15: the per-founder defects of a Validator run are, in founder order,
\* one defect naming the founder and the URL for each founder whose
\* twitter_url is not empty and is no Twitter/X URL, and none for a founder
\* whose twitter_url is empty, absent or a Twitter/X URL.
FounderTwitterRule ==
    [][Validated =>
        LET bad == SelectSeq(ProfileFounders(state.company_info), BadTwitter)
            defects == SelectSeq(state'.errors, IsFounderDefect)
        IN /\ Len(defects) = Len(bad)
           /\ \A i \in 1..Len(bad) :
                defects[i] = S("Invalid Founder Twitter URL (") \o bad[i].name
                             \o S("): ") \o bad[i].twitter_url]_vars

SecondFounderFlagged ==
    /\ pc = "validator"
    /\ stats.validator >= 1
    /\ Len(state.company_info.founders) = 2
    /\ Get(state.company_info.founders[1], "twitter_url") = XJane
    /\ Get(state.company_info.founders[2], "twitter_url") = FbJane
    /\ SelectSeq(state.errors, IsFounderDefect)
         = << S("Invalid Founder Twitter URL (") \o S("Bob Roe")
              \o S("): ") \o FbJane >>

StaffDefects(errors) ==
    {i \in 1..Len(errors) : errors[i][1] = "Suspicious Staff Strength: "}

\* C16: a staff_strength that is present is flagged unless it has a digit
\* or is longer than one character, that is exactly when it is one
\* character that is no digit; an empty or absent one gives no defect.
StaffStrengthRule ==
    [][Validated =>
        LET info == state.company_info
            defects == StaffDefects(state'.errors)
        IN /\ ~Present(info, "staff_strength") => defects = {}
           /\ Present(info, "staff_strength") =>
                LET staff == info.staff_strength
                    has_digit == \E i \in 1..Len(staff) : staff[i] \in Digits
                IN /\ defects = {} <=> (has_digit \/ Len(staff) > 1)
                   /\ defects # {} <=> (Len(staff) = 1 /\ staff[1] \notin Digits)
                   /\ \A i \in defects :
                        state'.errors[i]
                            = S("Suspicious Staff Strength: ") \o staff
           /\ Cardinality(defects) <= 1]_vars

OneLetterStaffFlagged ==
    /\ pc = "validator"
    /\ stats.validator >= 1
    /\ state.company_info.staff_strength = <<"x">>
    /\ StaffDefects(state.errors) # {}

-----------------------------------------------------------------------------
(* Whole runs *)

\* The first Validator run of a run is about to check a profile that
\* violates no rule.
FirstPassClean ==
    /\ pc = "validator"
    /\ stats.validator = 0
    /\ Defects(Rules(state.company_info)) = <<>>

\* The run is in DONE after one pass that found no defect.
DoneFirstPass == pc = "END" /\ state.is_valid /\ state.retry_count = 1

LastRow(rows) == rows[Len(rows)]

\* C17: a first pass whose profile has no defects ends the run: the
\* Validator goes to DONE with is_valid true and retry_count 1, the
\* Researcher and the Enricher have run once and do not run again, and the
\* output row has the Domain, Founder Names and Founder Emails of that pass
\* and an empty Errors field.
CleanFirstPassIsDone ==
    /\ [][FirstPassClean /\ ValidatorStep =>
            /\ pc' = "END"
            /\ state'.is_valid
            /\ state'.retry_count = 1
            /\ state'.company_info = state.company_info]_vars
    /\ [](DoneFirstPass =>
            /\ stats.researcher = 1
            /\ stats.enricher = 1
            /\ stats.validator = 1
            /\ stats.researcher_searches = 4
            /\ stats.researcher_extractions = 1
            /\ stats.enricher_extractions
                 = Len(ProfileFounders(state.company_info)))
    /\ [][DoneFirstPass /\ pc' # pc =>
            LET info == state.company_info
                founders == info.founders
                row == LastRow(results')
            IN /\ pc' = "main"
               /\ idx' = idx + 1
               /\ results' = Append(results, row)
               /\ row["Domain"] = info.domain
               /\ row["Founder Names"]
                    = Join(S("; "), [i \in 1..Len(founders) |-> founders[i].name])
               /\ \A i \in 1..Len(founders) :
                    Present(founders[i], "email") =>
                        Contains(row["Founder Emails"], founders[i].email[1])
               /\ row["Errors"] = <<>>
               /\ (/\ info.domain = S("acme.com")
                   /\ Len(founders) = 1
                   /\ founders[1].name = S("Jane Doe")
                   /\ Get(founders[1], "email") = S("jane@acme.com"))
                  => /\ row["Domain"] = S("acme.com")
                     /\ row["Founder Names"] = S("Jane Doe")
                     /\ row["Founder Emails"] = S("jane@acme.com")]_vars

AcmeDoneFirstPass ==
    /\ DoneFirstPass
    /\ stats.researcher = 1
    /\ stats.enricher = 1
    /\ state.company_info.domain = S("acme.com")
    /\ Len(state.company_info.founders) = 1
    /\ state.company_info.founders[1].name = S("Jane Doe")
    /\ Get(state.company_info.founders[1], "email") = S("jane@acme.com")
    /\ state.errors = <<>>

NoDomainNoFounders(info) ==
    ~Present(info, "domain") /\ ~Present(info, "founders")

Occurrences(errors, defect) ==
    Cardinality({i \in 1..Len(errors) : errors[i] = defect})

\* The second pass of a run is about to be validated, and both passes gave
\* a profile without a domain and without founders.
BothPassesEmpty ==
    /\ pc = "validator"
    /\ stats.validator = 1
    /\ NoDomainNoFounders(state.company_info)
    /\ Occurrences(state.errors, S("Missing Company Domain")) = 1
    /\ Occurrences(state.errors, S("No Founders Identified")) = 1

\* C18: when both passes give no domain and no founders, the first
\* Validator run sends the run back to RESEARCH and the second one ends it
\* in DONE with retry_count 2 and is_valid false; the Errors field of the
\* row has each of the two defects once, Missing Company Domain before No
\* Founders Identified, and is exactly these two joined by "; " when no
\* other rule is violated.
EmptyProfileTwice ==
    /\ [][(/\ ValidatorStep
           /\ stats.validator = 0
           /\ NoDomainNoFounders(state.company_info)) =>
            /\ pc' = "researcher"
            /\ state'.retry_count = 1
            /\ ~state'.is_valid]_vars
    /\ [][BothPassesEmpty /\ ValidatorStep =>
            /\ pc' = "END"
            /\ state'.retry_count = 2
            /\ ~state'.is_valid
            /\ SubSeq(state'.errors, 1, 2)
                 = <<S("Missing Company Domain"), S("No Founders Identified")>>
            /\ Occurrences(state'.errors, S("Missing Company Domain")) = 1
            /\ Occurrences(state'.errors, S("No Founders Identified")) = 1]_vars
    /\ [][(/\ pc = "END"
           /\ pc' # pc
           /\ state.retry_count = 2
           /\ NoDomainNoFounders(state.company_info)) =>
            LET row == LastRow(results')
            IN /\ results' = Append(results, row)
               /\ SubSeq(row["Errors"], 1, 3)
                    = <<"Missing Company Domain", "; ", "No Founders Identified">>
               /\ (~BadTwitter(state.company_info)
                   /\ ~SingleNonDigit(state.company_info))
                  => row["Errors"]
                       = <<"Missing Company Domain", "; ",
                           "No Founders Identified">>]_vars

EmptyProfileDone ==
    /\ pc = "END"
    /\ state.retry_count = 2
    /\ stats.researcher = 2
    /\ ~state.is_valid
    /\ NoDomainNoFounders(state.company_info)
    /\ state.errors
         = <<S("Missing Company Domain"), S("No Founders Identified")>>

\* The run is in DONE and main.py takes its row.
RowTaken == pc = "END" /\ pc' # pc

FounderColumns ==
    [email |-> "Founder Emails", phone |-> "Founder Phones",
     linkedin_url |-> "Founder LinkedIns", twitter_url |-> "Founder Twitters"]

ValueOrEmpty(d, key) == IF Present(d, key) THEN d[key] ELSE <<>>

HasEmail(f) == Present(f, "email")
HasPhone(f) == Present(f, "phone")
HasLinkedIn(f) == Present(f, "linkedin_url")
HasTwitter(f) == Present(f, "twitter_url")

Having(founders, key) ==
    CASE key = "email" -> SelectSeq(founders, HasEmail)
      [] key = "phone" -> SelectSeq(founders, HasPhone)
      [] key = "linkedin_url" -> SelectSeq(founders, HasLinkedIn)
      [] key = "twitter_url" -> SelectSeq(founders, HasTwitter)

\* C19 as stated: the row of a run that reached DONE has, for each founder
\* attribute, one string with one entry per founder, in profile order,
\* joined by "; ", and the final defects joined by "; " as Errors.
RowOneEntryPerFounder ==
    [][RowTaken =>
        LET founders == state.company_info.founders
            row == LastRow(results')
        IN /\ results' = Append(results, row)
           /\ row["Founder Names"]
                = Join(S("; "), [i \in 1..Len(founders) |-> founders[i].name])
           /\ \A key \in DOMAIN FounderColumns :
                row[FounderColumns[key]]
                    = Join(S("; "),
                           [i \in 1..Len(founders) |->
                               ValueOrEmpty(founders[i], key)])
           /\ row["Errors"] = Join(S("; "), state.errors)]_vars

\* C19, amended: the names string has one entry per founder; the string of
\* each other founder attribute has one entry for each founder that has a
\* value for it, in profile order, and nothing for the other founders; the
\* company fields are those of the final profile and Errors is the final
\* defects in Validator order, all joined by "; ".
RowFlattensProfile ==
    [][RowTaken =>
        LET info == state.company_info
            founders == info.founders
            row == LastRow(results')
        IN /\ results' = Append(results, row)
           /\ row["Input Company"] = state.company_name
           /\ row["Domain"] = info.domain
           /\ row["Description"] = info.description
           /\ row["Staff Strength"] = info.staff_strength
           /\ row["Company LinkedIn"] = info.linkedin_url
           /\ row["Company Twitter"] = info.twitter_url
           /\ row["Company Phone"] = info.phone
           /\ row["Founder Names"]
                = Join(S("; "), [i \in 1..Len(founders) |-> founders[i].name])
           /\ \A key \in DOMAIN FounderColumns :
                LET having == Having(founders, key)
                IN row[FounderColumns[key]]
                     = Join(S("; "), [i \in 1..Len(having) |-> having[i][key]])
           /\ state.errors = Defects(Rules(info))
           /\ row["Errors"] = Join(S("; "), state.errors)]_vars

RowWithOneEmailOfTwo ==
    /\ pc = "main"
    /\ results # <<>>
    /\ LastRow(results)["Founder Names"] = <<"Jane Doe", "; ", "Bob Roe">>
    /\ LastRow(results)["Founder Emails"] = S("jane@acme.com")

-----------------------------------------------------------------------------
(* Runs in which any of the searches may fail *)

\* Every combination of outcomes of the four searches of the Researcher.
AllResearcherSearches == [1..4 -> ClientOutcomes]

SearchResearcherResponses ==
    {Raises,
     Responds(<<JsonObject(ScalarsNull)>>),
     Responds(<<JsonObject(ScalarsDomain
                           @@ [founders |-> <<ExtractedFounder(1)>>])>>),
     Responds(<<JsonObject(ScalarsDomain
                           @@ [founders |->
                                  [i \in 1..MaxFounders |->
                                      ExtractedFounder(i)]])>>)}

\* Every combination of outcomes of the two searches for a founder.
AllEnricherOutcomes ==
    {FounderOutcome(s1, s2, response) :
        s1 \in ClientOutcomes, s2 \in ClientOutcomes,
        response \in {Raises, Responds(<<JsonObject(EnrichEmail)>>)}}

SearchNext ==
    \/ SkipRow
    \/ StartRow
    \/ Researcher(AllResearcherSearches, SearchResearcherResponses)
    \/ Enricher(AllEnricherOutcomes)
    \/ Validator
    \/ Collect
    \/ Except
    \/ WriteOutput

SpecSearch == Init /\ [][SearchNext]_vars

\* A search call came back with a result list, an empty one when it came
\* back with an error marker.
SearchReturned(call) ==
    /\ ~IsRaise(call.out)
    /\ "results" \in DOMAIN call.out
    /\ "error" \in DOMAIN call.out => call.out.results = <<>>

SearchFailed(call) == "error" \in DOMAIN call.out

\* C20: no failing search raises into a stage: every search of a stage
\* returns a result list, empty and with an error marker when it failed;
\* the Researcher makes its four searches and then its extraction call
\* whichever of the searches failed, the Enricher makes for every founder
\* the two searches and then the extraction call for that founder whichever
\* of the two failed, and no run is aborted by a search.
SearchFailuresContained ==
    /\ [][ResearcherStep =>
            /\ pc' = "enricher"
            /\ Len(calls') = 5
            /\ [i \in 1..4 |-> calls'[i].op]
                 = <<"search_company_info", "search_founders",
                     "search_company_twitter", "search_company_phone">>
            /\ \A i \in 1..4 : SearchReturned(calls'[i])
            /\ calls'[5].op = "llm.invoke"]_vars
    /\ [][(EnricherStep /\ "company_info" \in DOMAIN state) =>
            LET founders == ProfileFounders(state.company_info)
            IN /\ pc' = "validator"
               /\ Len(calls') = 3 * Len(founders)
               /\ \A i \in 1..Len(founders) :
                    /\ calls'[3 * i - 2].op = "enrich_founder"
                    /\ calls'[3 * i - 1].op = "search_founder_twitter"
                    /\ SearchReturned(calls'[3 * i - 2])
                    /\ SearchReturned(calls'[3 * i - 1])
                    /\ calls'[3 * i].op = "llm.invoke"
                    /\ calls'[3 * i].arg = founders[i].name]_vars
    /\ [](pc = "aborted" => calls = <<>>)

FailedSearchesThenExtraction ==
    /\ pc = "validator"
    /\ Len(calls) = 6
    /\ SearchFailed(calls[1])
    /\ ~SearchFailed(calls[2])
    /\ calls[3].op = "llm.invoke"
    /\ SearchFailed(calls[4])
    /\ SearchFailed(calls[5])
    /\ calls[6].op = "llm.invoke"
    /\ calls[6].arg = S("Bob Roe")

-----------------------------------------------------------------------------
(* The run state over a run *)

InStage == pc \in {"researcher", "enricher", "validator"}

HoldsProfile(st) == "company_info" \in DOMAIN st

\* A Researcher pass of this run has parsed its extraction.
ResearcherSucceeded(st) ==
    \E i \in 1..Len(st.logs) : st.logs[i][1] = "Researcher found basic info and "

ProfileOfInput(info, row) ==
    /\ info.name = RowCompanyName(row)
    /\ info.linkedin_url = RowLinkedIn(row)

EmptyProfile(info) ==
    /\ \A key \in DOMAIN info \ {"name", "linkedin_url", "founders"} :
         ~Present(info, key)
    /\ info.founders = <<>>

\* C21: at the entry of the Enricher and of the Validator the run state
\* holds a profile, and a profile held at the entry of any stage has the
\* name and the reference_id of the input row; before a Researcher pass has
\* succeeded its other fields are empty and it has no founders. (At the
\* entry of the Researcher a state without a profile is read as the empty
\* profile of graph.py:89-93 and is not counted against the claim.)
ProfileAtStageEntry ==
    InStage =>
        /\ pc \in {"enricher", "validator"} => HoldsProfile(state)
        /\ HoldsProfile(state) =>
            /\ ProfileOfInput(state.company_info, inputs[idx])
            /\ ~ResearcherSucceeded(state) => EmptyProfile(state.company_info)

-----------------------------------------------------------------------------
(* Runs whose extractions return keys and names nobody asked for *)

EvilCorp == S("Evil Corp")
EvilLinkedIn == S("linkedin.com/company/evil")

\* Extractions of the Researcher: null fields, an object that also has the
\* keys name and linkedin_url, and a founders list that repeats one name.
KeysResearcherResponses ==
    {Raises,
     Responds(<<JsonObject(ScalarsNull)>>),
     Responds(<<JsonObject(ScalarsDomain
                           @@ [name |-> EvilCorp, linkedin_url |-> EvilLinkedIn,
                               founders |->
                                  [i \in 1..MaxFounders |->
                                      ExtractedFounder(i)]])>>),
     Responds(<<JsonObject(ScalarsBadTwitter
                           @@ [founders |->
                                  [i \in 1..MaxFounders |->
                                      ExtractedFounder(1)]])>>)}

KeysSearches ==
    {<<"ok", "ok", "ok", "ok">>, <<"ok", "raise", "ok", "ok">>}

\* Extractions of the Enricher: one of them has a name key.
EnrichNamed == [name |-> S("Jane Doe"), email |-> S("jane@acme.com")]

KeysEnricherOutcomes ==
    {FounderOutcome("ok", "ok", Raises),
     FounderOutcome("ok", "ok", Responds(<<JsonObject(EnrichEmail)>>)),
     FounderOutcome("ok", "ok", Responds(<<JsonObject(EnrichNamed)>>))}

KeysNext ==
    \/ SkipRow
    \/ StartRow
    \/ Researcher(KeysSearches, KeysResearcherResponses)
    \/ Enricher(KeysEnricherOutcomes)
    \/ Validator
    \/ Collect
    \/ Except
    \/ WriteOutput

SpecKeys == Init /\ [][KeysNext]_vars

InRun == pc \in {"researcher", "enricher", "validator", "END"}

\* C22: all through a run, whatever the extractions return, the name and
\* the reference_id of the profile, and the company name and reference the
\* run state carries, are those of the input row, and so are the Input
\* Company and Company LinkedIn fields of the output row.
NameAndReferenceFixed ==
    /\ [](InRun =>
            /\ state.company_name = RowCompanyName(inputs[idx])
            /\ state.company_linkedin = RowLinkedIn(inputs[idx])
            /\ HoldsProfile(state) =>
                 ProfileOfInput(state.company_info, inputs[idx]))
    /\ [][RowTaken =>
            /\ LastRow(results')["Input Company"] = RowCompanyName(inputs[idx])
            /\ LastRow(results')["Company LinkedIn"]
                 = RowLinkedIn(inputs[idx])]_vars

\* The extraction of the retry pass named another company.
OtherNameExtracted ==
    /\ pc = "enricher"
    /\ stats.researcher = 2
    /\ calls[5].out.kind = "text"
    /\ calls[5].out.content[1].type = "object"
    /\ Get(calls[5].out.content[1].v, "name") = EvilCorp
    /\ state.company_info.name = Acme

\* C23: retry_count is 0 when a run starts and is always the number of
\* Validator runs of the run so far; a Validator run adds one to it whether
\* or not it finds defects, and a Researcher or Enricher step, failed or
\* not, changes neither retry_count nor is_valid.
RetryCountCountsValidations ==
    /\ [][pc = "main" /\ pc' = "researcher" => state'.retry_count = 0]_vars
    /\ [](InRun => state.retry_count = stats.validator)
    /\ [][ValidatorStep =>
            /\ state'.retry_count = state.retry_count + 1
            /\ stats'.validator = stats.validator + 1]_vars
    /\ [][((ResearcherStep \/ EnricherStep) /\ pc' # "aborted") =>
            /\ state'.retry_count = state.retry_count
            /\ Get(state', "is_valid") = Get(state, "is_valid")
            /\ stats'.validator = stats.validator]_vars

RetryPassParsedBeforeValidator ==
    /\ pc = "validator"
    /\ state.retry_count = 1
    /\ stats.validator = 1
    /\ state.is_valid = FALSE
    /\ Len(state.logs) >= 2

ParsedPasses(st) ==
    Cardinality({i \in 1..Len(st.logs) :
                    st.logs[i][1] = "Researcher found basic info and "})

\* C24: after every Validator run the error list is exactly the defects of
\* the profile as it is now: nothing of an earlier Validator run and no
\* diagnostic of a failed Researcher pass is left, and no output row has a
\* Researcher Error in its Errors field.
DefectsOverwritten ==
    /\ [][ValidatorStep =>
            /\ state'.errors = Defects(Rules(state'.company_info))
            /\ \A i \in 1..Len(state'.errors) :
                 ~IsResearcherError(state'.errors[i])]_vars
    /\ [][RowTaken =>
            ~Contains(LastRow(results')["Errors"], "Researcher Error: ")]_vars
    /\ [](output # None =>
            \A i \in 1..Len(output) :
                ~Contains(output[i]["Errors"], "Researcher Error: "))

DoneAfterFailedRetry ==
    /\ pc = "END"
    /\ stats.researcher = 2
    /\ ParsedPasses(state) = 1
    /\ state.errors # <<>>
    /\ state.errors = Defects(Rules(state.company_info))

IsPrefix(s, t) == Len(s) <= Len(t) /\ SubSeq(t, 1, Len(s)) = s

StageStep == ResearcherStep \/ EnricherStep \/ ValidatorStep

WithoutLog(st) == [k \in DOMAIN st \ {"logs"} |-> st[k]]

\* C25: across every stage step the log before the step is a prefix of
\* the log after it, and where the controller goes next is decided without
\* the log: after the Researcher the Enricher, after the Enricher the
\* Validator when the state holds a profile, and after the Validator what
\* is_valid and retry_count say, the same with the log taken away.
LogAppendOnly ==
    /\ [][StageStep => IsPrefix(state.logs, state'.logs)]_vars
    /\ [][ResearcherStep => pc' = "enricher"]_vars
    /\ [][EnricherStep =>
            pc' = IF HoldsProfile(WithoutLog(state)) THEN "validator"
                  ELSE "aborted"]_vars
    /\ [][ValidatorStep =>
            /\ pc' = router(WithoutLog(state'))
            /\ pc' = IF state'.is_valid \/ state'.retry_count > 1
                     THEN "END" ELSE "researcher"]_vars

FourLogLines ==
    /\ pc = "END"
    /\ Len(state.logs) = 4
    /\ state.logs[2] = S("No founders to enrich.")
    /\ state.logs[4] = S("No founders to enrich.")

CompanyLevel(info) == [k \in DOMAIN info \ {"founders"} |-> info[k]]

\* The keys the extraction for a founder gave, none when the call raised or
\* its answer has no JSON object.
ExtractedKeys(call) ==
    IF call.out.kind = "text"
       /\ \E i \in 1..Len(call.out.content) :
             call.out.content[i].t = "json"
             /\ call.out.content[i].type = "object"
    THEN UNION {DOMAIN call.out.content[i].v :
                   i \in {j \in 1..Len(call.out.content) :
                             call.out.content[j].t = "json"
                             /\ call.out.content[j].type = "object"}}
    ELSE {}

\* C26: an Enricher step changes founder-level fields only: the company
\* fields of the profile, retry_count, is_valid and the errors stay as they
\* were, the founders stay as many and in their places, each keeping what
\* its extraction did not give; with no founders the step makes no search
\* or extraction call and changes nothing but the log, which gets the one
\* line No founders to enrich.
EnricherFounderLevelOnly ==
    [][(EnricherStep /\ HoldsProfile(state)) =>
        LET info == state.company_info
            founders == info.founders
            after == state'.company_info.founders
        IN /\ CompanyLevel(state'.company_info) = CompanyLevel(info)
           /\ \A key \in {"name", "linkedin_url", "domain", "description",
                          "staff_strength", "twitter_url", "phone"} :
                state'.company_info[key] = info[key]
           /\ state'.retry_count = state.retry_count
           /\ Get(state', "is_valid") = Get(state, "is_valid")
           /\ state'.errors = state.errors
           /\ DOMAIN state' = DOMAIN state
           /\ Len(after) = Len(founders)
           /\ \A i \in 1..Len(founders) :
                /\ DOMAIN founders[i] \subseteq DOMAIN after[i]
                /\ \A key \in DOMAIN founders[i] \ ExtractedKeys(calls'[3 * i]) :
                     after[i][key] = founders[i][key]
           /\ founders # <<>> => state'.logs = state.logs
           /\ founders = <<>> =>
                /\ state'.logs = Append(state.logs, S("No founders to enrich."))
                /\ WithoutLog(state') = WithoutLog(state)
                /\ calls' = <<>>
                /\ stats'.enricher_searches = stats.enricher_searches
                /\ stats'.enricher_extractions = stats.enricher_extractions]_vars

\* The Enricher has enriched the second of two founders of a profile that
\* the Validator had found defective.
RetryEnrichedSecondFounder ==
    /\ pc = "validator"
    /\ stats.enricher = 2
    /\ Len(calls) = 6
    /\ calls[3].out.kind = "raise"
    /\ "email" \in ExtractedKeys(calls[6])
    /\ Present(state.company_info.founders[2], "email")
    /\ state.errors # <<>>

\* C27: the founders of the profile are unique by name in every state, also
\* when an extraction of the Researcher has one name twice or an
\* extraction of the Enricher has a name key.
FoundersUniqueByName ==
    (InRun /\ HoldsProfile(state)) =>
        LET founders == state.company_info.founders
        IN \A i, j \in 1..Len(founders) :
              i # j => founders[i].name # founders[j].name

\* C28: every Researcher pass, the first and the retry, makes the four
\* searches for the company metadata, the founders, the company Twitter
\* and the company phone and then one extraction call, in this order and
\* all for the company name of the input row; a run in DONE with
\* retry_count n has made 4n Researcher searches and n Researcher
\* extraction calls.
ResearcherPassFromScratch ==
    /\ [][ResearcherStep =>
            /\ Len(calls') = 5
            /\ [i \in 1..5 |-> calls'[i].op]
                 = <<"search_company_info", "search_founders",
                     "search_company_twitter", "search_company_phone",
                     "llm.invoke">>
            /\ \A i \in 1..5 : calls'[i].arg = RowCompanyName(inputs[idx])
            /\ stats'.researcher = stats.researcher + 1
            /\ stats'.researcher_searches = stats.researcher_searches + 4
            /\ stats'.researcher_extractions
                 = stats.researcher_extractions + 1]_vars
    /\ [](InRun =>
            /\ stats.researcher_searches = 4 * stats.researcher
            /\ stats.researcher_extractions = stats.researcher)
    /\ [](pc = "END" =>
            /\ stats.researcher_searches = 4 * state.retry_count
            /\ stats.researcher_extractions = state.retry_count)

EightSearchesTwoExtractions ==
    /\ pc = "END"
    /\ state.retry_count = 2
    /\ stats.researcher_searches = 8
    /\ stats.researcher_extractions = 2

-----------------------------------------------------------------------------
(* Runs of a batch *)

\* C29: the runs of a batch share nothing: a run starts from a state made
\* of its input row alone, whatever rows were processed before it and
\* however their runs ended; when a run ends, in DONE or aborted, nothing
\* of it is kept but its row, which is the flattening of its own final
\* state, and the rows of the earlier runs stay as they are.
RunsShareNothing ==
    /\ [][pc = "main" /\ pc' = "researcher" =>
            /\ state' = [company_name |-> RowCompanyName(inputs[idx]),
                         company_linkedin |-> RowLinkedIn(inputs[idx]),
                         retry_count |-> 0,
                         logs |-> <<>>,
                         errors |-> <<>>]
            /\ stats = ZeroStats
            /\ calls = <<>>]_vars
    /\ [][(InRun \/ pc = "aborted") /\ pc' = "main" =>
            /\ state' = NoRun
            /\ stats' = ZeroStats
            /\ calls' = <<>>
            /\ idx' = idx + 1]_vars
    /\ [][RowTaken =>
            /\ results' = Append(results, LastRow(results'))
            /\ LastRow(results')
                 = result_row(RowCompanyName(inputs[idx]), state)]_vars
    /\ [][IsPrefix(results, results') /\ Len(results') <= Len(results) + 1]_vars
    /\ [][pc = "aborted" => results' = results]_vars
    /\ [](pc = "main" => state = NoRun /\ stats = ZeroStats /\ calls = <<>>)

CleanRunAfterDefectiveRun ==
    /\ pc = "END"
    /\ idx >= 2
    /\ Len(results) = idx - 1
    /\ results[idx - 1]["Errors"] # <<>>
    /\ state.is_valid
    /\ state.errors = <<>>
    /\ Len(state.logs) = 1

NoRuleViolated(info) ==
    \A i \in 1..Len(Rules(info)) : ~Rules(info)[i].violated

\* C30: in DONE the profile is final: the Validator run that led there
\* left the profile as it examined it, no stage runs after it (only the
\* row is taken), the errors in DONE are the defects of that profile, and
\* is_valid is true in DONE exactly when the profile violates no rule.
DoneProfileIsFinal ==
    /\ [][ValidatorStep => state'.company_info = state.company_info]_vars
    /\ [](pc = "END" =>
            /\ state.errors = Defects(Rules(state.company_info))
            /\ state.is_valid <=> NoRuleViolated(state.company_info))
    /\ [][pc = "END" =>
            /\ pc' = "main"
            /\ stats'.researcher = 0 /\ stats'.enricher = 0
            /\ stats'.validator = 0
            /\ LastRow(results')["Company Twitter"]
                 = state.company_info.twitter_url
            /\ LastRow(results')["Domain"] = state.company_info.domain]_vars

DoneWithBadTwitter ==
    /\ pc = "END"
    /\ state.retry_count = 2
    /\ ~state.is_valid
    /\ BadTwitter(state.company_info)
    /\ Present(state.company_info, "founders")
    /\ Len(state.errors) = 1

====
